---------------------------- MODULE Spec2Model ----------------------------
(***************************************************************************)
(* A model of specter's throughput engine (py/specter/throughput.py) and   *)
(* of the numerical helpers of py/specter/util/util.py.                    *)
(*                                                                         *)
(* Numbers.  The code computes in IEEE doubles; the model computes in      *)
(* exact rational arithmetic.  A rational is a normalised pair <<n, d>>    *)
(* with d > 0 and gcd(n, d) = 1, so that equality of values is equality of *)
(* pairs.  The two irrational program constants (pi in fiberarea, and the  *)
(* product h*c) are carried symbolically, as exponents of a monomial       *)
(* (see Mono below).                                                       *)
(*                                                                         *)
(* Strings are sequences of one-character strings, so that strip, upper,   *)
(* replace, split and startswith are computed character by character.      *)
(*                                                                         *)
(* State.  self is the object the calls are made on (a Throughput, a       *)
(* LinearInterp2D, or NoObject for the module-level functions), call is    *)
(* the call (its name and arguments) and ret is what it returned or        *)
(* raised, Pending before it has run.                                      *)
(***************************************************************************)
EXTENDS Integers, Sequences, FiniteSets, TLC

VARIABLES self, call, ret

vars == <<self, call, ret>>

NoObject == [kind |-> "none"]
NoneValue == [tag |-> "None"]

(***************************************************************************)
(* Exceptions are values: a call either returns [ok |-> TRUE, val |-> v]   *)
(* or raises [ok |-> FALSE, exc |-> type, msg |-> message kind].           *)
(***************************************************************************)
Return(v) == [ok |-> TRUE, val |-> v]
Raise(exc, msg) == [ok |-> FALSE, exc |-> exc, msg |-> msg]

-----------------------------------------------------------------------------
(* Exact rational arithmetic *)

Abs(n) == IF n < 0 THEN -n ELSE n

RECURSIVE GCD(_, _)
GCD(a, b) == IF b = 0 THEN a ELSE GCD(b, a % b)

Rat(n, d) ==
    LET g == GCD(Abs(n), Abs(d))
        s == IF d < 0 THEN -1 ELSE 1
    IN  <<(s * n) \div g, (s * d) \div g>>

I(n) == <<n, 1>>
Zero == I(0)
One == I(1)
Half == Rat(1, 2)

RAdd(a, b) ==
    LET g == GCD(a[2], b[2])
    IN  Rat(a[1] * (b[2] \div g) + b[1] * (a[2] \div g), (a[2] \div g) * b[2])
RSub(a, b) == RAdd(a, <<-b[1], b[2]>>)
RMul(a, b) == Rat(a[1] * b[1], a[2] * b[2])
RDiv(a, b) == Rat(a[1] * b[2], a[2] * b[1])
RNeg(a) == <<-a[1], a[2]>>
RLt(a, b) == a[1] * b[2] < b[1] * a[2]
RLe(a, b) == a[1] * b[2] <= b[1] * a[2]
RAbs(a) == <<Abs(a[1]), a[2]>>

RECURSIVE IntPow(_, _)
IntPow(b, e) == IF e = 0 THEN 1 ELSE b * IntPow(b, e - 1)

(* 10**q for a rational q whose value is an integer (the model's airmasses  *)
(* and extinctions are chosen so that -0.4*airmass*extinction is one).     *)
Pow10(q) ==
    IF q[1] >= 0 THEN I(IntPow(10, q[1])) ELSE Rat(1, IntPow(10, -q[1]))

(* Element-wise array arithmetic (numpy broadcasting of equal-length 1-D   *)
(* arrays, and of an array with a scalar).                                 *)
VMul(a, b) == [i \in 1..Len(a) |-> RMul(a[i], b[i])]
VScale(a, s) == [i \in 1..Len(a) |-> RMul(a[i], s)]

RECURSIVE SeqSum(_)
SeqSum(s) == IF s = <<>> THEN Zero ELSE RAdd(s[1], SeqSum(Tail(s)))

-----------------------------------------------------------------------------
(* numpy primitives used by the code *)

(* np.diff(a) *)
diff(a) == [i \in 1..(Len(a) - 1) |-> RSub(a[i + 1], a[i])]

(* np.searchsorted(a, v), side='left': bisection for the first index whose *)
(* element is not below v; the result is 0-based, in 0..len(a).            *)
RECURSIVE bisect_left(_, _, _, _)
bisect_left(a, v, lo, hi) ==
    IF lo >= hi THEN lo
    ELSE LET mid == lo + ((hi - lo) \div 2)
         IN  IF RLt(a[mid + 1], v) THEN bisect_left(a, v, mid + 1, hi)
             ELSE bisect_left(a, v, lo, mid)

searchsorted(a, v) == bisect_left(a, v, 0, Len(a))

(* The bisection of np.interp: the 0-based index of the last element that  *)
(* is <= v (-1 when there is none).                                        *)
RECURSIVE bisect_right(_, _, _, _)
bisect_right(a, v, lo, hi) ==
    IF lo >= hi THEN lo - 1
    ELSE LET mid == lo + ((hi - lo) \div 2)
         IN  IF RLe(a[mid + 1], v) THEN bisect_right(a, v, mid + 1, hi)
             ELSE bisect_right(a, v, lo, mid)

(* np.interp(x, xp, fp, left, right) at one point x: left below xp[0],     *)
(* right above xp[-1], the sample itself at a sample point, and the chord  *)
(* between the bracketing samples otherwise.                               *)
interp1(x, xp, fp, left, right) ==
    LET n == Len(xp)
        j == bisect_right(xp, x, 0, n)
    IN  IF RLt(xp[n], x) THEN right
        ELSE IF RLt(x, xp[1]) THEN left
        ELSE IF j = n - 1 THEN fp[n]
        ELSE IF xp[j + 1] = x THEN fp[j + 1]
        ELSE LET slope == RDiv(RSub(fp[j + 2], fp[j + 1]),
                               RSub(xp[j + 2], xp[j + 1]))
             IN  RAdd(RMul(slope, RSub(x, xp[j + 1])), fp[j + 1])

(* np.interp over an array of points; left/right default to fp[0], fp[-1]  *)
interp(x, xp, fp) ==
    [i \in 1..Len(x) |-> interp1(x[i], xp, fp, fp[1], fp[Len(fp)])]

interp_zero(x, xp, fp) ==
    [i \in 1..Len(x) |-> interp1(x[i], xp, fp, Zero, Zero)]

(* np.gradient(a) of a 1-D array with unit spacing: central differences    *)
(* inside, one-sided first differences at the two ends.                    *)
gradient(a) ==
    [i \in 1..Len(a) |->
        IF i = 1 THEN RSub(a[2], a[1])
        ELSE IF i = Len(a) THEN RSub(a[Len(a)], a[Len(a) - 1])
        ELSE RMul(RSub(a[i + 1], a[i - 1]), Half)]

(* np.trapz(y, x) *)
RECURSIVE np_trapz(_, _)
np_trapz(y, x) ==
    IF Len(x) < 2 THEN Zero
    ELSE RAdd(RMul(RMul(RSub(x[2], x[1]), RAdd(y[1], y[2])), Half),
              np_trapz(Tail(y), Tail(x)))

-----------------------------------------------------------------------------
(* Python string methods, on sequences of one-character strings *)

Lower == <<"a","b","c","d","e","f","g","h","i","j","k","l","m",
           "n","o","p","q","r","s","t","u","v","w","x","y","z">>
Upper == <<"A","B","C","D","E","F","G","H","I","J","K","L","M",
           "N","O","P","Q","R","S","T","U","V","W","X","Y","Z">>
Whitespace == {" ", "\t", "\n"}
Digits == <<"0","1","2","3","4","5","6","7","8","9">>

IndexOf(c, alphabet) ==
    IF \E k \in 1..Len(alphabet) : alphabet[k] = c
    THEN CHOOSE k \in 1..Len(alphabet) : alphabet[k] = c
    ELSE 0

(* str.upper() *)
upper(s) ==
    [i \in 1..Len(s) |->
        IF IndexOf(s[i], Lower) > 0 THEN Upper[IndexOf(s[i], Lower)] ELSE s[i]]

RECURSIVE lstrip(_)
lstrip(s) ==
    IF s # <<>> /\ s[1] \in Whitespace THEN lstrip(Tail(s)) ELSE s

RECURSIVE rstrip(_)
rstrip(s) ==
    IF s # <<>> /\ s[Len(s)] \in Whitespace
    THEN rstrip(SubSeq(s, 1, Len(s) - 1)) ELSE s

(* str.strip() *)
strip(s) == rstrip(lstrip(s))

(* str.startswith(prefix) *)
startswith(s, prefix) ==
    Len(s) >= Len(prefix) /\ SubSeq(s, 1, Len(prefix)) = prefix

(* str.replace(old, new): every non-overlapping occurrence, left to right *)
RECURSIVE replace(_, _, _)
replace(s, old, new) ==
    IF s = <<>> THEN <<>>
    ELSE IF startswith(s, old)
         THEN new \o replace(SubSeq(s, Len(old) + 1, Len(s)), old, new)
         ELSE <<s[1]>> \o replace(Tail(s), old, new)

(* str.split(): the maximal runs of non-whitespace characters *)
RECURSIVE split_from(_, _, _)
split_from(s, cur, acc) ==
    IF s = <<>> THEN (IF cur = <<>> THEN acc ELSE Append(acc, cur))
    ELSE IF s[1] \in Whitespace
         THEN split_from(Tail(s), <<>>,
                         IF cur = <<>> THEN acc ELSE Append(acc, cur))
         ELSE split_from(Tail(s), Append(cur, s[1]), acc)

split(s) == split_from(s, <<>>, <<>>)

(***************************************************************************)
(* float(token) for decimal literals: [sign] digits [. digits] [e [sign]   *)
(* digits], or [sign] . digits [...].  scan_float runs the recogniser and  *)
(* accumulates the value's parts; a token it does not accept makes float   *)
(* raise ValueError.  (Python also accepts inf, nan and digit-group        *)
(* underscores; no token of the model spells one.)                         *)
(***************************************************************************)
FloatStart ==
    [st |-> "start", neg |-> FALSE, mant |-> 0, frac |-> 0,
     eneg |-> FALSE, exp |-> 0]

RECURSIVE scan_float(_, _)
scan_float(s, a) ==
    IF s = <<>> THEN a
    ELSE LET c == s[1]
             d == IndexOf(c, Digits) - 1
             rest == Tail(s)
             bad == [a EXCEPT !.st = "bad"]
         IN  IF a.st = "bad" THEN a
             ELSE IF d >= 0 THEN
                 IF a.st \in {"start", "sign", "int"}
                 THEN scan_float(rest, [a EXCEPT !.st = "int",
                                                 !.mant = 10 * a.mant + d])
                 ELSE IF a.st \in {"dot0", "frac"}
                 THEN scan_float(rest, [a EXCEPT !.st = "frac",
                                                 !.mant = 10 * a.mant + d,
                                                 !.frac = a.frac + 1])
                 ELSE scan_float(rest, [a EXCEPT !.st = "exp",
                                                 !.exp = 10 * a.exp + d])
             ELSE IF c \in {"+", "-"} THEN
                 IF a.st = "start"
                 THEN scan_float(rest, [a EXCEPT !.st = "sign",
                                                 !.neg = (c = "-")])
                 ELSE IF a.st = "e"
                 THEN scan_float(rest, [a EXCEPT !.st = "esign",
                                                 !.eneg = (c = "-")])
                 ELSE bad
             ELSE IF c = "." THEN
                 IF a.st \in {"start", "sign"}
                 THEN scan_float(rest, [a EXCEPT !.st = "dot0"])
                 ELSE IF a.st = "int"
                 THEN scan_float(rest, [a EXCEPT !.st = "frac"])
                 ELSE bad
             ELSE IF c \in {"e", "E"} THEN
                 IF a.st \in {"int", "frac"}
                 THEN scan_float(rest, [a EXCEPT !.st = "e"])
                 ELSE bad
             ELSE bad

is_float(tok) == scan_float(tok, FloatStart).st \in {"int", "frac", "exp"}

float(tok) ==
    LET a == scan_float(tok, FloatStart)
        e == (IF a.eneg THEN -a.exp ELSE a.exp) - a.frac
        m == IF a.neg THEN -a.mant ELSE a.mant
    IN  IF e >= 0 THEN I(m * IntPow(10, e)) ELSE Rat(m, IntPow(10, -e))

-----------------------------------------------------------------------------
(***************************************************************************)
(* Photon counts carry the two irrational constants symbolically: a Mono   *)
(* [q, pi, hc] is the number q * pi^pi * (h*c)^hc, q rational.  The erg    *)
(* branches of photons only multiply and divide, so monomials are closed   *)
(* under what they compute.                                                *)
(***************************************************************************)
Mono(q, p, h) == [q |-> q, pi |-> p, hc |-> h]
M(q) == Mono(q, 0, 0)
MMul(a, b) == Mono(RMul(a.q, b.q), a.pi + b.pi, a.hc + b.hc)
MScale(a, r) == Mono(RMul(a.q, r), a.pi, a.hc)

(* self._hc = 6.62606957e-27 * 2.99792458e8 * 1e10, as the symbol hc^1 *)
hc == Mono(One, 0, 1)
MDiv(a, b) == Mono(RDiv(a.q, b.q), a.pi - b.pi, a.hc - b.hc)

(* np.pi *)
np_pi == Mono(One, 1, 0)

(* A flux array: ndim 1 with data a sequence of values, or ndim 2 with     *)
(* rows a sequence of rows.  ArrMap applies F(value, column) to each       *)
(* element, which is how numpy broadcasts a 1-D array over the last axis.  *)
Arr1(data) == [ndim |-> 1, data |-> data]
Arr2(rows) == [ndim |-> 2, rows |-> rows]

ArrMap(a, F(_, _)) ==
    IF a.ndim = 1
    THEN Arr1([j \in 1..Len(a.data) |-> F(a.data[j], j)])
    ELSE Arr2([i \in 1..Len(a.rows) |->
                  [j \in 1..Len(a.rows[i]) |-> F(a.rows[i][j], j)]])

ArrMulVec(a, v) == ArrMap(a, LAMBDA x, j : RMul(x, v[j]))
ArrScale(a, r) == ArrMap(a, LAMBDA x, j : RMul(x, r))

-----------------------------------------------------------------------------
(* class ObjType *)
STAR == <<"S","T","A","R">>
GALAXY == <<"G","A","L","A","X","Y">>
QSO == <<"Q","S","O">>
SKY == <<"S","K","Y">>
CALIB == <<"C","A","L","I","B">>

(***************************************************************************)
(* Throughput.__init__: the three curves are copied, the scalars made      *)
(* floats, and fiberinput is None (no loss: ones), a float (a constant     *)
(* curve) or an array (copied).                                            *)
(***************************************************************************)
FloatArg(v) == [tag |-> "float", v |-> v]
ArrayArg(d) == [tag |-> "array", data |-> d]

Throughput(wave, throughput, extinction, exptime, area, fiberdia, fiberinput) ==
    [kind |-> "Throughput",
     wave |-> wave,
     thru |-> throughput,
     extinction |-> extinction,
     exptime |-> exptime,
     area |-> area,
     fiberdia |-> fiberdia,
     fiberinput |->
        IF fiberinput # NoneValue
        THEN IF fiberinput.tag = "float"
             THEN [i \in 1..Len(wave) |-> fiberinput.v]
             ELSE fiberinput.data
        ELSE [i \in 1..Len(wave) |-> One]]

(* Throughput.fiberarea = np.pi * self.fiberdia**2 / 4.0 *)
fiberarea(o) ==
    MScale(MScale(np_pi, RMul(o.fiberdia, o.fiberdia)), Rat(1, 4))

(* Throughput.hardware_throughput(wavelength) *)
hardware_throughput(o, wavelength) == interp_zero(wavelength, o.wave, o.thru)

(* 10**(-0.4*airmass*self._extinction), element by element *)
Tatm(o, airmass) ==
    [i \in 1..Len(o.wave) |->
        Pow10(RMul(RMul(Rat(-2, 5), airmass), o.extinction[i]))]

(* Fault: the label is upper-cased but not stripped before the comparison *)
throughput_unstripped(o, objtype, airmass) ==
    LET ot == upper(objtype)
    IN  IF ot = CALIB THEN o.thru
        ELSE IF ot = SKY THEN VMul(o.thru, Tatm(o, airmass))
        ELSE VMul(VMul(o.thru, Tatm(o, airmass)), o.fiberinput)

(* Throughput._throughput(objtype, airmass): the curve on the native grid *)
_throughput(o, objtype, airmass) ==
    LET ot == upper(strip(objtype))
    IN  IF ot = CALIB THEN o.thru
        ELSE IF ot = SKY THEN VMul(o.thru, Tatm(o, airmass))
        ELSE VMul(VMul(o.thru, Tatm(o, airmass)), o.fiberinput)

(* Fault: np.interp's default left and right (the end values) are kept *)
thru_flat(o, wavelength, objtype, airmass) ==
    interp(wavelength, o.wave, _throughput(o, objtype, airmass))

(* Throughput.__call__(wavelength, objtype, airmass), also named thru *)
thru(o, wavelength, objtype, airmass) ==
    interp_zero(wavelength, o.wave, _throughput(o, objtype, airmass))

(***************************************************************************)
(* Throughput.apply_throughput(wavelength, flux, objtype, airmass).        *)
(* objtype is a str ([isstr |-> TRUE, s |-> characters]) or a list of      *)
(* labels ([isstr |-> FALSE, list |-> labels]).  A list with a 1-D flux    *)
(* reaches objtype.strip(), which a list does not have.  In the per-row    *)
(* branch the loop runs over set(objtype) in the set's order; the rows of  *)
(* distinct labels are disjoint, so each order gives the same array, and   *)
(* apply_rows takes the labels in the order CHOOSE gives.                  *)
(***************************************************************************)
StrArg(s) == [isstr |-> TRUE, s |-> s]
ListArg(l) == [isstr |-> FALSE, list |-> l]

(* Fault: the rows of a group are found by the normalised label, so that   *)
(* two spellings of one type each multiply the rows of both.               *)
RECURSIVE apply_rows_normalised(_, _, _, _, _, _)
apply_rows_normalised(o, wavelength, objtype, airmass, todo, outflux) ==
    IF todo = {} THEN outflux
    ELSE LET xt == CHOOSE x \in todo : TRUE
             t == thru(o, wavelength, xt, airmass)
             ii == {i \in 1..Len(objtype) :
                       upper(strip(objtype[i])) = upper(strip(xt))}
         IN  apply_rows_normalised(o, wavelength, objtype, airmass,
                 todo \ {xt},
                 [i \in 1..Len(outflux) |->
                     IF i \in ii THEN VMul(outflux[i], t) ELSE outflux[i]])

RECURSIVE apply_rows(_, _, _, _, _, _)
apply_rows(o, wavelength, objtype, airmass, todo, outflux) ==
    IF todo = {} THEN outflux
    ELSE LET xt == CHOOSE x \in todo : TRUE
             t == thru(o, wavelength, xt, airmass)
             ii == {i \in 1..Len(objtype) : objtype[i] = xt}
         IN  apply_rows(o, wavelength, objtype, airmass, todo \ {xt},
                 [i \in 1..Len(outflux) |->
                     IF i \in ii THEN VMul(outflux[i], t) ELSE outflux[i]])

apply_throughput(o, wavelength, flux, objtype, airmass) ==
    IF flux.ndim = 1 \/ objtype.isstr
    THEN IF ~objtype.isstr
         THEN Raise("AttributeError", "list has no strip")
         ELSE Return(ArrMulVec(flux, thru(o, wavelength, objtype.s, airmass)))
    ELSE IF flux.ndim # 2 THEN Raise("AssertionError", "ndim")
    ELSE IF Len(flux.rows) # Len(objtype.list)
         THEN Raise("AssertionError", "shape")
    ELSE Return(Arr2(apply_rows(o, wavelength, objtype.list, airmass,
                                {objtype.list[i] : i \in 1..Len(objtype.list)},
                                flux.rows)))

-----------------------------------------------------------------------------
(* The unit strings photons compares against *)
U_photon == <<"p","h","o","t","o","n">>
U_photon_A == <<"p","h","o","t","o","n","/","A">>
U_erg == <<"e","r","g">>
U_flambda == <<"e","r","g","/","s","/","c","m","^","2","/","A">>
U_flambda_arcsec == <<"e","r","g","/","s","/","c","m","^","2","/","A","/","a","r","c","s","e","c","^","2">>
U_flux == <<"e","r","g","/","s","/","c","m","^","2">>
U_flux_arcsec == <<"e","r","g","/","s","/","c","m","^","2","/","a","r","c","s","e","c","^","2">>

(* "Standardize units; allow some sloppiness": strip, then the eight       *)
(* replacements in the order of the code.                                  *)
standardize(units) ==
    LET u0 == strip(units)
        u1 == replace(u0, <<"e","r","g","s">>, <<"e","r","g">>)
        u2 == replace(u1, <<"p","h","o","t","o","n","s">>, <<"p","h","o","t","o","n">>)
        u3 == replace(u2, <<"A","n","g","s","t","r","o","m","s">>, <<"A">>)
        u4 == replace(u3, <<"A","n","g","s","t","r","o","m">>, <<"A">>)
        u5 == replace(u4, <<"A","n","g">>, <<"A">>)
        u6 == replace(u5, <<"*","*">>, <<"^">>)
        u7 == replace(u6, <<"c","m","2">>, <<"c","m","^","2">>)
    IN  replace(u7, <<"a","r","c","s","e","c","2">>, <<"a","r","c","s","e","c","^","2">>)

(***************************************************************************)
(* "Check for units prefactor like 1e-17 erg/s/cm^2/A": with exactly two   *)
(* whitespace-separated tokens the first must be a float, which scales the *)
(* flux, and the second is the unit; otherwise the string stays whole.     *)
(***************************************************************************)
(* Fault: any string of two or more tokens is taken to have a prefactor *)
units_prefactor_loose(std) ==
    LET tmp == split(std)
    IN  IF Len(tmp) >= 2
        THEN IF is_float(tmp[1])
             THEN [ok |-> TRUE, scaled |-> TRUE, scale |-> float(tmp[1]),
                   units |-> tmp[2]]
             ELSE Raise("ValueError", "Non-numeric units scale factor")
        ELSE [ok |-> TRUE, scaled |-> FALSE, scale |-> One, units |-> std]

units_prefactor(std) ==
    LET tmp == split(std)
    IN  IF Len(tmp) = 2
        THEN IF is_float(tmp[1])
             THEN [ok |-> TRUE, scaled |-> TRUE, scale |-> float(tmp[1]),
                   units |-> tmp[2]]
             ELSE Raise("ValueError", "Non-numeric units scale factor")
        ELSE [ok |-> TRUE, scaled |-> FALSE, scale |-> One, units |-> std]

(* "Default exposure time": exptime is NoneValue or a FloatArg *)
(* Fault: the default also replaces an exposure time of 0 ("if not exptime") *)
default_exptime_falsy(o, exptime) ==
    IF exptime = NoneValue \/ exptime.v = Zero THEN o.exptime ELSE exptime.v

default_exptime(o, exptime) ==
    IF exptime = NoneValue THEN o.exptime ELSE exptime.v

(* "Input photons; return photons per bin": the two units that are already *)
(* detector photons.  NoneValue when the unit is neither.                  *)
(* Fault: photon/A is returned per Angstrom, not per bin *)
observed_photons_per_A(flux, units, dw) ==
    IF units = U_photon \/ units = U_photon_A
    THEN Return(ArrMap(flux, LAMBDA x, j : M(x)))
    ELSE NoneValue

observed_photons(flux, units, dw) ==
    IF units = U_photon
    THEN Return(ArrMap(flux, LAMBDA x, j : M(x)))
    ELSE IF units = U_photon_A
    THEN Return(ArrMap(flux, LAMBDA x, j : M(RMul(x, dw[j]))))
    ELSE NoneValue

(***************************************************************************)
(* Throughput.photons(wavelength, flux, units, objtype, exptime, airmass). *)
(* The result is an array of Mono.                                         *)
(***************************************************************************)
photons(o, wavelength, flux, units, objtype, exptime, airmass) ==
    LET dw == gradient(wavelength)
        pre == units_prefactor(standardize(units))
    IN  IF ~pre.ok THEN pre
        ELSE
        LET flux1 == IF pre.scaled THEN ArrScale(flux, pre.scale) ELSE flux
            u == pre.units
            et == default_exptime(o, exptime)
            seen == observed_photons(flux1, u, dw)
        IN  IF seen # NoneValue THEN seen
            ELSE IF ~startswith(u, U_erg)
            THEN Raise("ValueError", "Unrecognized units")
            ELSE
            LET thruflux == apply_throughput(o, wavelength, flux1, objtype, airmass)
            IN  IF ~thruflux.ok THEN thruflux
                ELSE
                LET phot(x, j) == MDiv(M(RMul(x, wavelength[j])), hc)
                    base(x, j) == MScale(MScale(phot(x, j), et), o.area)
                IN  IF u = U_flambda
                    THEN Return(ArrMap(thruflux.val,
                            LAMBDA x, j : MScale(base(x, j), dw[j])))
                    ELSE IF u = U_flambda_arcsec
                    THEN Return(ArrMap(thruflux.val,
                            LAMBDA x, j : MMul(MScale(base(x, j), dw[j]),
                                               fiberarea(o))))
                    ELSE IF u = U_flux
                    THEN Return(ArrMap(thruflux.val, LAMBDA x, j : base(x, j)))
                    ELSE IF u = U_flux_arcsec
                    THEN Return(ArrMap(thruflux.val,
                            LAMBDA x, j : MMul(base(x, j), fiberarea(o))))
                    ELSE Raise("ValueError", "Unrecognized units")

-----------------------------------------------------------------------------
(* util.trapz *)

(* xp[ilo:ihi] for 0-based ilo, ihi in 0..len(xp): empty when ihi <= ilo *)
slice(a, ilo, ihi) == IF ihi <= ilo THEN <<>> ELSE SubSeq(a, ilo + 1, ihi)

(* The body of the loop of trapz: the integral over the bin between        *)
(* edges[i] and edges[i+1] (i 1-based), through the samples iedge brackets *)
trapz_bin(edges, xp, yp, yedge, iedge, i) ==
    LET ilo == iedge[i]
        ihi == iedge[i + 1]
        xx == <<edges[i]>> \o slice(xp, ilo, ihi) \o <<edges[i + 1]>>
        yy == <<yedge[i]>> \o slice(yp, ilo, ihi) \o <<yedge[i + 1]>>
    IN  np_trapz(yy, xx)

(* Fault: the function is taken to be 0 outside the samples *)
trapz_yedge_zero(edges, xp, yp) == interp_zero(edges, xp, yp)

(* yedge = np.interp(edges, xp, yp) *)
trapz_yedge(edges, xp, yp) == interp(edges, xp, yp)

(***************************************************************************)
(* trapz(edges, xp, yp).  After its two checks the code calls np.interp,   *)
(* which raises ValueError for an empty xp, and np.zeros(len(edges)-1),    *)
(* which raises ValueError for an empty edges.                             *)
(***************************************************************************)
trapz(edges, xp, yp) ==
    IF \E i \in 1..(Len(xp) - 1) : RLt(diff(xp)[i], Zero)
    THEN Raise("ValueError", "Input x must be sorted in increasing order")
    ELSE IF Len(xp) # Len(yp)
    THEN Raise("ValueError", "xp and yp must have same length")
    ELSE IF Len(xp) = 0
    THEN Raise("ValueError", "array of sample points is empty")
    ELSE IF Len(edges) = 0
    THEN Raise("ValueError", "negative dimensions are not allowed")
    ELSE LET yedge == trapz_yedge(edges, xp, yp)
             iedge == [i \in 1..Len(edges) |-> searchsorted(xp, edges[i])]
         IN  Return([i \in 1..(Len(edges) - 1) |->
                        trapz_bin(edges, xp, yp, yedge, iedge, i)])

-----------------------------------------------------------------------------
(* util.LinearInterp2D *)

(* LinearInterp2D.__init__(x, y, data): data[ix][iy] is the value at       *)
(* (x[ix], y[iy]); a cell value is one number here.                        *)
LinearInterp2D(x, y, data) ==
    [kind |-> "LinearInterp2D", x |-> x, y |-> y, data |-> data]

(* ndarray.clip(lo, hi) of one index: minimum(hi, maximum(i, lo)) *)
clip(i, lo, hi) ==
    LET m == IF i < lo THEN lo ELSE i
    IN  IF m > hi THEN hi ELSE m

(* Fault: the index is clipped from below only *)
grid_index_unclamped(grid, v) ==
    LET i == searchsorted(grid, v) IN IF i < 1 THEN 1 ELSE i

(* np.searchsorted(self.x, x).clip(1, len(self.x)-1): the 0-based index of *)
(* the upper grid line of the cell                                         *)
grid_index(grid, v) == clip(searchsorted(grid, v), 1, Len(grid) - 1)

(***************************************************************************)
(* LinearInterp2D.__call__(x, y) for one point.  grid[k] below is the      *)
(* code's self.x[k-1]: the cell lies between the 1-based grid lines ix and *)
(* ix+1.  Indexing past the end of an array raises IndexError.             *)
(***************************************************************************)
LinearInterp2D_call(o, x, y) ==
    LET ix == grid_index(o.x, x)
        iy == grid_index(o.y, y)
    IN  IF ix > Len(o.x) - 1 \/ iy > Len(o.y) - 1
        THEN Raise("IndexError", "index out of bounds")
        ELSE
        LET dx == RDiv(RSub(x, o.x[ix]), RSub(o.x[ix + 1], o.x[ix]))
            dy == RDiv(RSub(y, o.y[iy]), RSub(o.y[iy + 1], o.y[iy]))
            data1 == RAdd(RMul(o.data[ix][iy], RSub(One, dx)),
                          RMul(o.data[ix + 1][iy], dx))
            data2 == RAdd(RMul(o.data[ix][iy + 1], RSub(One, dx)),
                          RMul(o.data[ix + 1][iy + 1], dx))
        IN  Return(RAdd(RMul(data1, RSub(One, dy)), RMul(data2, dy)))

-----------------------------------------------------------------------------
(* util.sincshift and util.sincshift2d *)

(* ndarray.shape, ndarray.ravel(), ndarray.T and ndarray.reshape(shape) of *)
(* a 2-D array; reshape raises when the sizes differ.                      *)
shape(a) == <<Len(a.rows), IF Len(a.rows) = 0 THEN 0 ELSE Len(a.rows[1])>>

ravel(a) ==
    LET nc == shape(a)[2]
    IN  [n \in 1..(shape(a)[1] * nc) |->
            a.rows[((n - 1) \div nc) + 1][((n - 1) % nc) + 1]]

transpose(a) ==
    Arr2([j \in 1..shape(a)[2] |-> [i \in 1..shape(a)[1] |-> a.rows[i][j]]])

reshape(flat, shp) ==
    IF Len(flat) # shp[1] * shp[2]
    THEN Raise("ValueError", "cannot reshape array")
    ELSE Return(Arr2([i \in 1..shp[1] |->
                         [j \in 1..shp[2] |-> flat[(i - 1) * shp[2] + j]]]))

(* The full discrete convolution of two 1-D arrays *)
convolve_full(in1, in2) ==
    [n \in 1..(Len(in1) + Len(in2) - 1) |->
        SeqSum([i \in 1..Len(in1) |->
                   IF (n - i + 1) \in 1..Len(in2)
                   THEN RMul(in1[i], in2[n - i + 1])
                   ELSE Zero])]

(* scipy.signal's _centered(arr, newshape) along one axis *)
centered(arr, newlen) ==
    LET start == (Len(arr) - newlen) \div 2
    IN  [n \in 1..newlen |-> arr[start + n]]

(* Fault: the output takes the length of the longer input, as             *)
(* numpy.convolve(mode='same') does                                        *)
convolve_longer(in1, in2) ==
    centered(convolve_full(in1, in2),
             IF Len(in1) > Len(in2) THEN Len(in1) ELSE Len(in2))

(* scipy.signal.convolve(in1, in2, mode='same'): the output has the size   *)
(* of in1, centred with respect to the full convolution                    *)
convolve(in1, in2) == centered(convolve_full(in1, in2), Len(in1))

(* scipy.signal.convolve2d(in1, in2, mode='same'), zero fill *)
convolve2d(in1, in2) ==
    LET r0 == (shape(in2)[1] - 1) \div 2
        c0 == (shape(in2)[2] - 1) \div 2
        full(a, b) ==
            SeqSum([p \in 1..shape(in1)[1] |->
                SeqSum([q \in 1..shape(in1)[2] |->
                    IF /\ (a - p + 1) \in 1..shape(in2)[1]
                       /\ (b - q + 1) \in 1..shape(in2)[2]
                    THEN RMul(in1.rows[p][q], in2.rows[a - p + 1][b - q + 1])
                    ELSE Zero])])
    IN  Arr2([i \in 1..shape(in1)[1] |->
                 [j \in 1..shape(in1)[2] |-> full(i + r0, j + c0)]])

(* np.outer(a, b) *)
outer(a, b) == Arr2([i \in 1..Len(a) |-> [j \in 1..Len(b) |-> RMul(a[i], b[j])]])

(* np.arange(-sincrad, sincrad+1.0) for a whole radius *)
arange(sincrad) == [k \in 1..(2 * sincrad + 1) |-> I(k - sincrad - 1)]

(***************************************************************************)
(* exp(-(t/3.25)^2) * sin(pi t) / (pi t), the weight of _sincfunc for the  *)
(* default dampfac, rounded to thousandths.  At a half-integer t = j/2 it  *)
(* is read from a table indexed by (|j|+1)/2; elsewhere the model only     *)
(* evaluates it within 1e-7 of a whole number, where it rounds to 1 at 0   *)
(* and to 0 at the others.                                                 *)
(***************************************************************************)
HalfIntegerWeights == <<622, -171, 70, -29, 10, -3>>

DampedSinc(t) ==
    IF t[2] = 2
    THEN LET k == (Abs(t[1]) + 1) \div 2
         IN  IF k > Len(HalfIntegerWeights)
             THEN Zero
             ELSE Rat(HalfIntegerWeights[k], 1000)
    ELSE IF RLt(RAbs(t), Half) THEN One ELSE Zero

(* _sincfunc(x, dx) *)
_sincfunc(x, dx) ==
    IF dx # Zero
    THEN [k \in 1..Len(x) |-> DampedSinc(RAdd(x[k], dx))]
    ELSE [k \in 1..Len(x) |-> IF k = (Len(x) \div 2) + 1 THEN One ELSE Zero]

(* the 1e-6 below which sincshift leaves an axis alone *)
ShiftFloor == Rat(1, 1000000)

(***************************************************************************)
(* sincshift(image, dx, dy, sincrad): the flattened image is convolved     *)
(* with the row kernel and put back into shape, then the flattened         *)
(* transpose with the column kernel.                                       *)
(***************************************************************************)
sincshift(image, dx, dy, sincrad) ==
    LET s == arange(sincrad)
        imgshape == shape(image)
        shifted_x ==
            IF RLt(ShiftFloor, RAbs(dx))
            THEN reshape(convolve(ravel(image), _sincfunc(s, RNeg(dx))),
                         imgshape)
            ELSE Return(image)
    IN  IF ~shifted_x.ok
        THEN shifted_x
        ELSE IF RLt(ShiftFloor, RAbs(dy))
        THEN LET shifted_y ==
                     reshape(convolve(ravel(transpose(shifted_x.val)),
                                      _sincfunc(s, RNeg(dy))),
                             <<imgshape[2], imgshape[1]>>)
             IN  IF shifted_y.ok
                 THEN Return(transpose(shifted_y.val))
                 ELSE shifted_y
        ELSE shifted_x

(* sincshift2d(image, dx, dy, sincrad) *)
sincshift2d(image, dx, dy, sincrad) ==
    LET s == arange(sincrad)
        sincx == _sincfunc(s, RNeg(dx))
        sincy == _sincfunc(s, RNeg(dy))
        kernel == outer(sincy, sincx)
    IN  Return(convolve2d(image, kernel))

-----------------------------------------------------------------------------
(* throughput.load_throughput *)

(***************************************************************************)
(* The THROUGHPUT HDU of a file: names is thru.dtype.names (lower case),   *)
(* keys the keywords of the header; columns and header hold the values,    *)
(* which are read only under a name or keyword that is present.  Indexing  *)
(* the table by an absent name raises ValueError (numpy: no field of that  *)
(* name), indexing the header by an absent keyword raises KeyError.        *)
(***************************************************************************)
column(src, name) ==
    IF name \in src.names
    THEN Return(src.columns[name])
    ELSE Raise("ValueError", "no field of name")

keyword(src, key) ==
    IF key \in src.keys
    THEN Return(src.header[key])
    ELSE Raise("KeyError", "unknown record")

(* load_throughput(filename): the arguments of Throughput(...) are         *)
(* evaluated in the order written, the first to fail raises.               *)
load_throughput(src) ==
    LET w == IF "wavelength" \in src.names
             THEN Return(src.columns["wavelength"])
             ELSE IF "loglam" \in src.names
             THEN Return([i \in 1..Len(src.columns["loglam"]) |->
                             Pow10(src.columns["loglam"][i])])
             ELSE Raise("ValueError",
                        "throughput must include wavelength or loglam")
        area == IF "GEOMAREA" \in src.keys
                THEN Return(src.header["GEOMAREA"])
                ELSE IF "EFFAREA" \in src.keys
                THEN Return(src.header["EFFAREA"])
                ELSE IF "AREA" \in src.keys
                THEN Return(src.header["AREA"])
                ELSE Raise("ValueError",
                           "throughput file missing GEOMAREA keyword")
        throughput == column(src, "throughput")
        extinction == column(src, "extinction")
        fiberinput == column(src, "fiberinput")
        exptime == keyword(src, "EXPTIME")
        fiberdia == keyword(src, "FIBERDIA")
    IN  IF ~w.ok THEN w
        ELSE IF ~area.ok THEN area
        ELSE IF ~throughput.ok THEN throughput
        ELSE IF ~extinction.ok THEN extinction
        ELSE IF ~fiberinput.ok THEN fiberinput
        ELSE IF ~exptime.ok THEN exptime
        ELSE IF ~fiberdia.ok THEN fiberdia
        ELSE Return(Throughput(w.val, throughput.val, extinction.val,
                               exptime.val, area.val, fiberdia.val,
                               ArrayArg(fiberinput.val)))

-----------------------------------------------------------------------------
(* util.gaussint and util.gausspix *)

(***************************************************************************)
(* (erf(z / sqrt(2)) + 1) / 2, the standard normal distribution function,  *)
(* rounded to millionths.  The model evaluates it at multiples of 1/2:     *)
(* HalfStepCDF[k + 1] is its value at k/2, and it is 1 to this precision   *)
(* beyond the table; a negative argument uses the symmetry of erf.         *)
(***************************************************************************)
HalfStepCDF ==
    <<500000, 691462, 841345, 933193, 977250, 993790,
      998650, 999767, 999968, 999997, 1000000, 1000000,
      1000000, 1000000, 1000000, 1000000, 1000000>>

NormalCDF(z) ==
    LET k == Abs((2 * z[1]) \div z[2])
        upper_value == IF k + 1 > Len(HalfStepCDF)
                       THEN One
                       ELSE Rat(HalfStepCDF[k + 1], 1000000)
    IN  IF z[1] >= 0 THEN upper_value ELSE RSub(One, upper_value)

(* gaussint(x, mean, sigma) for an array x *)
gaussint(x, mean, sigma) ==
    [i \in 1..Len(x) |-> NormalCDF(RDiv(RSub(x[i], mean), sigma))]

(* np.concatenate((a, b)) *)
concatenate(a, b) ==
    [i \in 1..(Len(a) + Len(b)) |-> IF i <= Len(a) THEN a[i] ELSE b[i - Len(a)]]

(* gausspix(x, mean, sigma): x[-1:] is the last element as an array, or    *)
(* the empty array; integrals[1:] - integrals[0:-1]                        *)
gausspix(x, mean, sigma) ==
    LET last == IF Len(x) = 0 THEN <<>> ELSE <<x[Len(x)]>>
        edges == concatenate([i \in 1..Len(x) |-> RSub(x[i], Half)],
                             [i \in 1..Len(last) |-> RAdd(last[i], Half)])
        integrals == gaussint(edges, mean, sigma)
    IN  Return([i \in 1..(Len(integrals) - 1) |->
                   RSub(integrals[i + 1], integrals[i])])

-----------------------------------------------------------------------------
(* util.legval_numba: the numba version and the numpy fallback *)

VAdd(a, b) == [i \in 1..Len(a) |-> RAdd(a[i], b[i])]
VSub(a, b) == [i \in 1..Len(a) |-> RSub(a[i], b[i])]
ones(n) == [i \in 1..n |-> One]

(* c[-i] of Python for 1 <= i <= len(c) *)
from_end(c, i) == c[Len(c) - i + 1]

(***************************************************************************)
(* The choice made when the module is imported: the numba version unless   *)
(* NUMBA_DISABLE_JIT is in os.environ or numba cannot be imported.         *)
(***************************************************************************)
select_legval(numba_installed, disable_jit) ==
    IF disable_jit \/ ~numba_installed THEN "numpy" ELSE "numba"

(* the loop of the numba version, from i to len(c) *)
RECURSIVE legval_numba_jit_loop(_, _, _, _, _, _)
legval_numba_jit_loop(x, c, i, nd, c0, c1) ==
    IF i > Len(c)
    THEN <<c0, c1>>
    ELSE LET tmp == c0
             nd1 == nd - 1
             nd_inv == Rat(1, nd1)
         IN  legval_numba_jit_loop(x, c, i + 1, nd1,
                 VSub(VScale(ones(Len(x)), from_end(c, i)),
                      VScale(VScale(c1, I(nd1 - 1)), nd_inv)),
                 VAdd(tmp,
                      VScale(VScale(VMul(c1, x), I(2 * nd1 - 1)), nd_inv)))

(***************************************************************************)
(* legval_numba(x, c) compiled by numba in nopython mode.  A negative      *)
(* index wraps around once and is not checked against the bounds: c[-2] of *)
(* a one-element c reads the memory before the array, and the read yields  *)
(* stray, whatever lies there (or IndexError in a build that checks        *)
(* bounds).                                                                *)
(***************************************************************************)
legval_numba_jit(x, c, stray) ==
    LET nd == Len(c)
        xlen == Len(x)
        before_last == IF nd >= 2 THEN Return(from_end(c, 2)) ELSE stray
    IN  IF ~before_last.ok
        THEN before_last
        ELSE LET c0 == VScale(ones(xlen), before_last.val)
                 c1 == VScale(ones(xlen), from_end(c, 1))
                 r == legval_numba_jit_loop(x, c, 3, nd, c0, c1)
             IN  Return(VAdd(r[1], VMul(r[2], x)))

(* the loop of the fallback, from i to len(c) *)
RECURSIVE legval_numba_fallback_loop(_, _, _, _, _, _)
legval_numba_fallback_loop(x, c, i, nd, c0, c1) ==
    IF i > Len(c)
    THEN <<c0, c1>>
    ELSE LET tmp == c0
             nd1 == nd - 1
         IN  legval_numba_fallback_loop(x, c, i + 1, nd1,
                 VSub(VScale(ones(Len(x)), from_end(c, i)),
                      [j \in 1..Len(x) |->
                          RDiv(RMul(c1[j], I(nd1 - 1)), I(nd1))]),
                 VAdd(tmp,
                      [j \in 1..Len(x) |->
                          RDiv(RMul(RMul(c1[j], x[j]), I(2 * nd1 - 1)), I(nd1))]))

(***************************************************************************)
(* legval_numba(x, c, tensor=True) of the fallback, numpy's legval, for a  *)
(* 1-D array x: the coefficients broadcast over the elements of x.         *)
(***************************************************************************)
legval_numba_fallback(x, c) ==
    LET xlen == Len(x)
        start ==
            IF Len(c) = 1
            THEN <<VScale(ones(xlen), c[1]), VScale(ones(xlen), Zero)>>
            ELSE IF Len(c) = 2
            THEN <<VScale(ones(xlen), c[1]), VScale(ones(xlen), c[2])>>
            ELSE legval_numba_fallback_loop(x, c, 3, Len(c),
                     VScale(ones(xlen), from_end(c, 2)),
                     VScale(ones(xlen), from_end(c, 1)))
    IN  Return(VAdd(start[1], VMul(start[2], x)))

-----------------------------------------------------------------------------
(* Bounds of the model and the inputs drawn within them *)

(* the longest native wavelength grid *)
MaxWave == 3
(* the most rows of a 2-D flux array *)
MaxRows == 3
(* the most samples (xp, yp) and the most bin edges of a call of trapz *)
MaxSamples == 3
MaxEdges == 3
(* the most grid lines along an axis of a LinearInterp2D *)
MaxGrid == 3
(* the most rows, and the most columns, of an image, and the largest      *)
(* kernel radius                                                           *)
MaxImage == 3
MaxRad == 2
(* the most pixel centers of a call of gausspix *)
MaxCenters == 3
(* the most coefficients of a Legendre series *)
MaxCoef == 4

(* Native grids are strictly ascending and unevenly spaced: 2, 5, 10, ...  *)
WavePoint(i) == i * i + 1
NativeGrid(n) == [i \in 1..n |-> I(WavePoint(i))]

(* Query wavelengths: below, on, between and above the grid points *)
Queries == {I(w) : w \in 1..(WavePoint(MaxWave) + 1)}

ThruCurves(n) == {[i \in 1..n |-> Rat(i, i + p)] : p \in 1..2}
ExtCurves(n) ==
    {[i \in 1..n |-> Zero],
     [i \in 1..n |-> IF i % 2 = 1 THEN Rat(5, 2) ELSE Zero]}
FiberArgs(n) ==
    {NoneValue, FloatArg(Half), ArrayArg([i \in 1..n |-> Rat(1, i + 1)])}
Airmasses == {I(1), I(2)}

(* Object-type labels: the enumeration, other spellings of it, and strings *)
(* outside it.                                                             *)
CalibSpellings == {CALIB, <<"c","a","l","i","b">>, <<" ","C","a","l","i","b">>, <<"C","A","L","I","B"," ","\n">>}
SkySpellings == {SKY, <<"s","k","y">>, <<" ","S","k","y"," ">>, <<"\t","s","k","y">>}
OtherLabels ==
    {STAR, GALAXY, QSO, <<"s","t","a","r">>, <<"F","O","O">>, <<>>, <<"S","K","Y","X">>, <<"S"," ","K","Y">>, <<"C","A","L","I">>}
Labels == CalibSpellings \cup SkySpellings \cup OtherLabels
RowLabels == {STAR, SKY, <<"s","k","y">>, <<"c","a","l","i","b">>}

Throughputs ==
    UNION {
        {Throughput(NativeGrid(n), t, e, I(10), I(3), I(2), f) :
            t \in ThruCurves(n), e \in ExtCurves(n), f \in FiberArgs(n)}
        : n \in 1..MaxWave}

(* 2-D and 1-D flux arrays with c columns, every element different *)
Flux2D(r, c) == Arr2([i \in 1..r |-> [j \in 1..c |-> I(i + j)]])
Flux1D(c) == Arr1([j \in 1..c |-> I(j)])

LabelLists == UNION {[1..r -> RowLabels] : r \in 1..MaxRows}

-----------------------------------------------------------------------------
(***************************************************************************)
(* The Throughput object is constructed once and then only read.  A        *)
(* behaviour is one call on it: the initial state holds the constructed    *)
(* object and the call's arguments (ret = Pending), and the step of the    *)
(* method called computes what it returns or raises.                       *)
(***************************************************************************)
Pending == [tag |-> "pending"]

(* apply_throughput with a per-row label list on a 2-D flux whose row      *)
(* count matches or not, with one label for all rows, and on a 1-D flux;   *)
(* the wavelengths are the native grid or the grid shifted by one.         *)
ApplyCall(o, lst, shift, airmass, form) ==
    LET c == Len(o.wave)
    IN  [op |-> "apply_throughput",
         wavelength |-> [j \in 1..c |-> RAdd(o.wave[j], I(shift))],
         flux |-> IF form = "flat" THEN Flux1D(c)
                  ELSE IF form = "onerow" THEN Flux2D(1, c)
                  ELSE Flux2D(Len(lst), c),
         objtype |-> IF form = "str" THEN StrArg(lst[1]) ELSE ListArg(lst),
         airmass |-> airmass]

ThroughputCalls(o) ==
    {[op |-> "_throughput", objtype |-> ot, airmass |-> am] :
        ot \in Labels, am \in Airmasses}
    \cup
    {[op |-> "__call__", wavelength |-> <<w>>, objtype |-> ot, airmass |-> am] :
        w \in Queries, ot \in RowLabels \cup {<<"F","O","O">>}, am \in Airmasses}
    \cup
    {[op |-> "hardware_throughput", wavelength |-> <<w>>] : w \in Queries}
    \cup
    {ApplyCall(o, lst, shift, am, form) :
        lst \in LabelLists, shift \in {0, 1}, am \in Airmasses,
        form \in {"rows", "onerow", "str", "flat"}}

InitThroughput ==
    /\ self \in Throughputs
    /\ call \in ThroughputCalls(self)
    /\ ret = Pending

CallThroughput ==
    /\ call.op = "_throughput" /\ ret = Pending
    /\ ret' = Return(_throughput(self, call.objtype, call.airmass))
    /\ UNCHANGED <<self, call>>

CallEvaluate ==
    /\ call.op = "__call__" /\ ret = Pending
    /\ ret' = Return(thru(self, call.wavelength, call.objtype, call.airmass))
    /\ UNCHANGED <<self, call>>

CallHardware ==
    /\ call.op = "hardware_throughput" /\ ret = Pending
    /\ ret' = Return(hardware_throughput(self, call.wavelength))
    /\ UNCHANGED <<self, call>>

CallApplyThroughput ==
    /\ call.op = "apply_throughput" /\ ret = Pending
    /\ ret' = apply_throughput(self, call.wavelength, call.flux,
                               call.objtype, call.airmass)
    /\ UNCHANGED <<self, call>>

NextThroughput ==
    \/ CallThroughput
    \/ CallEvaluate
    \/ CallHardware
    \/ CallApplyThroughput

SpecThroughput == InitThroughput /\ [][NextThroughput]_vars

-----------------------------------------------------------------------------
(***************************************************************************)
(* Calls of photons.  A unit string is spelled from parts: optional        *)
(* padding, an optional prefix (a scale factor, a word, or two numbers),   *)
(* the energy word, the per-area, per-Angstrom and per-solid-angle         *)
(* suffixes in one of their spellings, and an optional trailing word.  The *)
(* call keeps the parts beside the string, for the properties to refer to. *)
(***************************************************************************)
Pads == {<<>>, <<" ">>}
Prefixes == {<<>>, <<"2"," ">>, <<"1","e","-","1"," "," ">>, <<"x"," ">>, <<"1","e"," ">>, <<"2"," ","3"," ">>}
Energies == {<<"e","r","g">>, <<"e","r","g","s">>, <<"p","h","o","t","o","n">>, <<"p","h","o","t","o","n","s">>, <<"p","a","r","s","e","c","s">>, <<"E","r","g">>}
PerAreas == {<<>>, <<"/","s","/","c","m","^","2">>, <<"/","s","/","c","m","2">>, <<"/","s","/","c","m","*","*","2">>}
PerAngstroms == {<<>>, <<"/","A">>, <<"/","A","n","g">>, <<"/","A","n","g","s","t","r","o","m">>, <<"/","A","n","g","s","t","r","o","m","s">>, <<"/","a">>}
PerArcsecs == {<<>>, <<"/","a","r","c","s","e","c","^","2">>, <<"/","a","r","c","s","e","c","2">>, <<"/","a","r","c","s","e","c","*","*","2">>}
Trailers == {<<>>, <<" ","x">>}

UnitParts ==
    [pad : Pads, prefix : Prefixes, energy : Energies, area : PerAreas,
     angstrom : PerAngstroms, arcsec : PerArcsecs, trailer : Trailers]

Spell(p) ==
    p.pad \o p.prefix \o p.energy \o p.area \o p.angstrom \o p.arcsec
          \o p.trailer \o p.pad

(* The wavelengths of the flux: unevenly spaced, the last beyond the grid *)
PhotonWave == [j \in 1..MaxWave |-> I(WavePoint(j) + 1)]

PhotonThroughputs ==
    {Throughput(NativeGrid(MaxWave), [i \in 1..MaxWave |-> Rat(i, i + 1)],
                [i \in 1..MaxWave |-> IF i % 2 = 1 THEN Rat(5, 2) ELSE Zero],
                I(10), I(3), I(2), ArrayArg([i \in 1..MaxWave |-> Rat(1, i + 1)]))}

(* Object type, airmass and exposure time (None, given, and given as 0) *)
PhotonSettings ==
    {<<STAR, I(1), NoneValue>>, <<STAR, I(2), FloatArg(Zero)>>,
     <<SKY, I(1), FloatArg(I(7))>>, <<SKY, I(2), NoneValue>>,
     <<CALIB, I(1), FloatArg(Zero)>>, <<CALIB, I(2), FloatArg(I(7))>>}

PhotonCalls ==
    {[op |-> "photons", wavelength |-> PhotonWave, flux |-> Flux1D(MaxWave),
      units |-> Spell(p), parts |-> p, objtype |-> StrArg(k[1]),
      exptime |-> k[3], airmass |-> k[2]] :
        p \in UnitParts, k \in PhotonSettings}

InitPhotons ==
    /\ self \in PhotonThroughputs
    /\ call \in PhotonCalls
    /\ ret = Pending

CallPhotons ==
    /\ call.op = "photons" /\ ret = Pending
    /\ ret' = photons(self, call.wavelength, call.flux, call.units,
                      call.objtype, call.exptime, call.airmass)
    /\ UNCHANGED <<self, call>>

NextPhotons == CallPhotons

SpecPhotons == InitPhotons /\ [][NextPhotons]_vars

-----------------------------------------------------------------------------
(***************************************************************************)
(* C1.  For every object-type label and every airmass the curve            *)
(* _throughput returns on the native grid is decided by the trimmed,       *)
(* upper-cased label alone: a spelling of CALIB gives the hardware curve   *)
(* (no atmosphere, no fiber-input term), a spelling of SKY gives hardware  *)
(* times atmosphere, and every other string, in the enumeration or not,    *)
(* gives hardware times atmosphere times fiber input; no label raises.     *)
(* The spellings are listed (CalibSpellings, SkySpellings), not computed.  *)
(***************************************************************************)
C1_ThreeBranchPolicy ==
    (call.op = "_throughput" /\ ret # Pending) =>
        /\ ret.ok
        /\ Len(ret.val) = Len(self.wave)
        /\ \A i \in 1..Len(self.wave) :
              LET hw == self.thru[i]
                  atm == Tatm(self, call.airmass)[i]
                  fib == self.fiberinput[i]
              IN  ret.val[i] =
                     IF call.objtype \in CalibSpellings THEN hw
                     ELSE IF call.objtype \in SkySpellings THEN RMul(hw, atm)
                     ELSE RMul(RMul(hw, atm), fib)

(* A label outside the enumeration got all three terms, on an object whose *)
(* atmosphere and fiber-input terms both change the curve.                 *)
C1_Witness ==
    /\ call.op = "_throughput" /\ ret # Pending
    /\ call.objtype = <<"F","O","O">>
    /\ ret.val = VMul(VMul(self.thru, Tatm(self, call.airmass)), self.fiberinput)
    /\ ret.val # VMul(self.thru, Tatm(self, call.airmass))
    /\ VMul(self.thru, Tatm(self, call.airmass)) # self.thru

(***************************************************************************)
(* C2.  For every object type and airmass, __call__ (evaluate) and         *)
(* hardware_throughput return exactly 0 at every wavelength strictly below *)
(* the first or strictly above the last point of the native grid, and at a *)
(* point of the grid they return the composite (resp. hardware) value of   *)
(* that point.  The native grid is strictly ascending.                     *)
(***************************************************************************)
C2_ZeroOutsideExactOnGrid ==
    (call.op \in {"__call__", "hardware_throughput"} /\ ret # Pending) =>
        LET n == Len(self.wave)
            w == call.wavelength[1]
            curve == IF call.op = "__call__"
                     THEN _throughput(self, call.objtype, call.airmass)
                     ELSE self.thru
        IN  /\ ret.ok
            /\ (RLt(w, self.wave[1]) \/ RLt(self.wave[n], w))
                  => ret.val[1] = Zero
            /\ \A i \in 1..n : (w = self.wave[i]) => ret.val[1] = curve[i]

(* A query above the grid returned 0 although the curve's last value, the  *)
(* one a flat extrapolation would give, is not 0.                          *)
C2_Witness ==
    /\ call.op = "__call__" /\ ret # Pending
    /\ RLt(self.wave[Len(self.wave)], call.wavelength[1])
    /\ ret.val[1] = Zero
    /\ _throughput(self, call.objtype, call.airmass)[Len(self.wave)] # Zero

(***************************************************************************)
(* Calls of trapz.  Sample positions are 0, 2, 4 in non-decreasing order   *)
(* (repeated positions included), sample values are 1 or 3; edges lie on   *)
(* the integers -1..5, so below, on, between and above the samples, and    *)
(* come in ascending or in descending order.  Three further sample sets    *)
(* are the ones trapz rejects, and an empty one.                           *)
(***************************************************************************)
SortedSeqs(vals, n) ==
    {q \in [1..n -> vals] : \A i \in 1..(n - 1) : q[i] <= q[i + 1]}
Reversed(q) == [i \in 1..Len(q) |-> q[Len(q) + 1 - i]]
AsRationals(q) == [i \in 1..Len(q) |-> I(q[i])]

SamplePositions == UNION {SortedSeqs({0, 2, 4}, n) : n \in 1..MaxSamples}
SampleSets ==
    {<<AsRationals(x), AsRationals(y)>> :
        x \in SamplePositions, y \in UNION {[1..n -> {1, 3}] : n \in 1..MaxSamples}}
RebinSamples ==
    {xy \in SampleSets : Len(xy[1]) = Len(xy[2])}
    \cup {<<AsRationals(<<2, 0>>), AsRationals(<<1, 3>>)>>,
          <<AsRationals(<<0, 2>>), AsRationals(<<1>>)>>,
          <<<<>>, <<>>>>}

AscendingEdges == UNION {SortedSeqs(-1..5, n) : n \in 0..MaxEdges}
RebinEdges ==
    {AsRationals(e) : e \in AscendingEdges}
    \cup {AsRationals(Reversed(e)) : e \in AscendingEdges}

InitTrapz ==
    /\ self = NoObject
    /\ call \in {[op |-> "trapz", edges |-> e, xp |-> xy[1], yp |-> xy[2]] :
                    e \in RebinEdges, xy \in RebinSamples}
    /\ ret = Pending

CallTrapz ==
    /\ call.op = "trapz" /\ ret = Pending
    /\ ret' = trapz(call.edges, call.xp, call.yp)
    /\ UNCHANGED <<self, call>>

NextTrapz == CallTrapz

SpecTrapz == InitTrapz /\ [][NextTrapz]_vars

(***************************************************************************)
(* A LinearInterp2D over strictly ascending, unevenly spaced grids of at   *)
(* least two lines each (0, 2, 6, ...), with a table that is not bilinear, *)
(* queried at every integer point from one below to one above the grid.    *)
(***************************************************************************)
GridLine(i) == i * (i - 1)
Grid(n) == [i \in 1..n |-> I(GridLine(i))]
Tables(m, l) ==
    {[i \in 1..m |-> [j \in 1..l |-> I(3 * i * i + j * j * j + k * i * j)]] :
        k \in 0..1}
Interpolators ==
    UNION {{LinearInterp2D(Grid(m), Grid(l), d) : d \in Tables(m, l)} :
              m \in 2..MaxGrid, l \in 2..MaxGrid}
GridQueries(n) == {I(q) : q \in -1..(GridLine(n) + 1)}

InitInterp2D ==
    /\ self \in Interpolators
    /\ call \in {[op |-> "LinearInterp2D.__call__", x |-> x, y |-> y] :
                    x \in GridQueries(Len(self.x)),
                    y \in GridQueries(Len(self.y))}
    /\ ret = Pending

CallInterp2D ==
    /\ call.op = "LinearInterp2D.__call__" /\ ret = Pending
    /\ ret' = LinearInterp2D_call(self, call.x, call.y)
    /\ UNCHANGED <<self, call>>

NextInterp2D == CallInterp2D

SpecInterp2D == InitInterp2D /\ [][NextInterp2D]_vars

(***************************************************************************)
(* Images of every shape up to MaxImage x MaxImage, flat or with all       *)
(* pixels different, shifted along each axis by nothing, by 1e-7, or by    *)
(* half a pixel either way, with kernels of 1 to 2 MaxRad + 1 weights.     *)
(***************************************************************************)
Images ==
    UNION {{Arr2([i \in 1..r |-> [j \in 1..c |-> I(k * (i * i + 2 * j) + 1 - k)]]) :
               k \in 0..1} : r \in 1..MaxImage, c \in 1..MaxImage}
Shifts == {Zero, Rat(1, 10000000), Half, RNeg(Half)}
ShiftCalls(op) ==
    {[op |-> op, image |-> im, dx |-> dx, dy |-> dy, sincrad |-> rad] :
        im \in Images, dx \in Shifts, dy \in Shifts, rad \in 0..MaxRad}

InitSinc ==
    /\ self = NoObject
    /\ call \in ShiftCalls("sincshift") \cup ShiftCalls("sincshift2d")
    /\ ret = Pending

CallSincshift ==
    /\ call.op = "sincshift" /\ ret = Pending
    /\ ret' = sincshift(call.image, call.dx, call.dy, call.sincrad)
    /\ UNCHANGED <<self, call>>

CallSincshift2d ==
    /\ call.op = "sincshift2d" /\ ret = Pending
    /\ ret' = sincshift2d(call.image, call.dx, call.dy, call.sincrad)
    /\ UNCHANGED <<self, call>>

NextSinc == CallSincshift \/ CallSincshift2d

SpecSinc == InitSinc /\ [][NextSinc]_vars

(***************************************************************************)
(* Calibration files with every subset of the five columns and of the five *)
(* header keywords, over 1..MaxWave wavelengths; the three area keywords   *)
(* hold different values.                                                  *)
(***************************************************************************)
ColumnNames == {"wavelength", "loglam", "throughput", "extinction", "fiberinput"}
HeaderKeys == {"GEOMAREA", "EFFAREA", "AREA", "EXPTIME", "FIBERDIA"}
FileColumns(n) ==
    [wavelength |-> NativeGrid(n),
     loglam |-> [i \in 1..n |-> I(i - 1)],
     throughput |-> [i \in 1..n |-> Rat(i, i + 1)],
     extinction |-> [i \in 1..n |-> IF i % 2 = 1 THEN Rat(5, 2) ELSE Zero],
     fiberinput |-> [i \in 1..n |-> Rat(1, i + 1)]]
FileHeader ==
    [GEOMAREA |-> I(3), EFFAREA |-> I(4), AREA |-> I(5),
     EXPTIME |-> I(10), FIBERDIA |-> I(2)]
Files ==
    {[names |-> ns, columns |-> FileColumns(n), keys |-> ks, header |-> FileHeader] :
        ns \in SUBSET ColumnNames, ks \in SUBSET HeaderKeys, n \in 1..MaxWave}

InitLoad ==
    /\ self = NoObject
    /\ call \in {[op |-> "load_throughput", file |-> f] : f \in Files}
    /\ ret = Pending

CallLoad ==
    /\ call.op = "load_throughput" /\ ret = Pending
    /\ ret' = load_throughput(call.file)
    /\ UNCHANGED <<self, call>>

NextLoad == CallLoad

SpecLoad == InitLoad /\ [][NextLoad]_vars

(***************************************************************************)
(* Pixel centers: every sequence of 1..MaxCenters whole numbers from -2 to *)
(* 2 (ascending or not, unit-spaced or not, repeated or not), and the      *)
(* empty array; Gaussians of mean 0 or 1 and sigma 1 or 1/2.               *)
(***************************************************************************)
CenterValues == {I(v) : v \in -2..2}
Centers == UNION {[1..n -> CenterValues] : n \in 0..MaxCenters}

InitGauss ==
    /\ self = NoObject
    /\ call \in {[op |-> "gausspix", x |-> x, mean |-> m, sigma |-> sg] :
                    x \in Centers, m \in {Zero, One}, sg \in {One, Half}}
    /\ ret = Pending

CallGausspix ==
    /\ call.op = "gausspix" /\ ret = Pending
    /\ ret' = gausspix(call.x, call.mean, call.sigma)
    /\ UNCHANGED <<self, call>>

NextGauss == CallGausspix

SpecGauss == InitGauss /\ [][NextGauss]_vars

(***************************************************************************)
(* The util module after its import, in each environment (numba installed  *)
(* or not, NUMBA_DISABLE_JIT set or not): legval holds the implementation  *)
(* bound to the name legval_numba.  The environment may change after the   *)
(* import.  One call of legval_numba(x, c), with 1..MaxCoef coefficients   *)
(* and one or two evaluation points.                                       *)
(***************************************************************************)
UtilModule(numba_installed, disable_jit) ==
    [kind |-> "util",
     numba_installed |-> numba_installed,
     disable_jit_at_import |-> disable_jit,
     disable_jit |-> disable_jit,
     legval |-> select_legval(numba_installed, disable_jit)]

CoefValues == {I(-1), I(0), I(2)}
Coefficients == UNION {[1..n -> CoefValues] : n \in 1..MaxCoef}
PointValues == {I(0), Half, I(-1), I(2)}
Points == UNION {[1..n -> PointValues] : n \in 1..2}

(* what the read before a one-element array can yield *)
StrayReads == {Return(Zero), Return(I(7)), Raise("IndexError", "index out of bounds")}

InitLegval ==
    /\ self \in {UtilModule(n, d) : n \in BOOLEAN, d \in BOOLEAN}
    /\ call \in {[op |-> "legval_numba", x |-> x, c |-> c] :
                    x \in Points, c \in Coefficients}
    /\ ret = Pending

(* os.environ changes after the import *)
SetEnviron ==
    /\ ret = Pending
    /\ self' = [self EXCEPT !.disable_jit = ~self.disable_jit]
    /\ UNCHANGED <<call, ret>>

CallLegvalJit ==
    /\ call.op = "legval_numba" /\ ret = Pending
    /\ self.legval = "numba"
    /\ \E stray \in StrayReads :
          ret' = legval_numba_jit(call.x, call.c, stray)
    /\ UNCHANGED <<self, call>>

CallLegvalFallback ==
    /\ call.op = "legval_numba" /\ ret = Pending
    /\ self.legval = "numpy"
    /\ ret' = legval_numba_fallback(call.x, call.c)
    /\ UNCHANGED <<self, call>>

NextLegval == SetEnviron \/ CallLegvalJit \/ CallLegvalFallback

SpecLegval == InitLegval /\ [][NextLegval]_vars

(***************************************************************************)
(* What a unit string spelled from parts p is, read off the parts: how     *)
(* many whitespace-separated tokens it has, whether the first is a number, *)
(* the scale factor it carries, and which unit of the closed set (if any)  *)
(* its unit token is a spelling of.                                        *)
(***************************************************************************)
PrefixTokens(p) ==
    IF p.prefix = <<>> THEN 0 ELSE IF p.prefix = <<"2"," ","3"," ">> THEN 2 ELSE 1
TokenCount(p) ==
    PrefixTokens(p) + 1 + (IF p.trailer = <<>> THEN 0 ELSE 1)
FirstTokenNumeric(p) == p.prefix \in {<<"2"," ">>, <<"1","e","-","1"," "," ">>, <<"2"," ","3"," ">>}
HasScale(p) == TokenCount(p) = 2 /\ FirstTokenNumeric(p)
PrefixScale(p) ==
    IF ~HasScale(p) THEN One
    ELSE IF p.prefix = <<"2"," ">> THEN I(2) ELSE Rat(1, 10)
PhotonWord(p) == p.energy \in {<<"p","h","o","t","o","n">>, <<"p","h","o","t","o","n","s">>}
ErgWord(p) == p.energy \in {<<"e","r","g">>, <<"e","r","g","s">>}
PerA(p) == p.angstrom \in {<<"/","A">>, <<"/","A","n","g">>, <<"/","A","n","g","s","t","r","o","m">>, <<"/","A","n","g","s","t","r","o","m","s">>}
PerArcsec(p) == p.arcsec # <<>>
InClosedSet(p) ==
    /\ p.angstrom = <<>> \/ PerA(p)
    /\ \/ PhotonWord(p) /\ p.area = <<>> /\ p.arcsec = <<>>
       \/ ErgWord(p) /\ p.area # <<>>
Accepted(p) == InClosedSet(p) /\ (TokenCount(p) = 1 \/ HasScale(p))

(***************************************************************************)
(* C3.  photons returns a result only for a unit string that, once         *)
(* trimmed, normalised and rid of one optional leading numeric scale       *)
(* token, is one of photon, photon/A, erg/s/cm^2/A, erg/s/cm^2/A/arcsec^2, *)
(* erg/s/cm^2, erg/s/cm^2/arcsec^2.  Every other string raises ValueError: *)
(* the invalid-scale-factor error when it has exactly two tokens and the   *)
(* first is not a number, the unrecognized-units error otherwise.          *)
(***************************************************************************)
C3_UnitGrammar ==
    (call.op = "photons" /\ ret # Pending) =>
        IF Accepted(call.parts) THEN ret.ok
        ELSE /\ ~ret.ok
             /\ ret.exc = "ValueError"
             /\ ret.msg =
                   IF TokenCount(call.parts) = 2 /\ ~FirstTokenNumeric(call.parts)
                   THEN "Non-numeric units scale factor"
                   ELSE "Unrecognized units"

(* A scaled, loosely spelled unit ("1e-1  ergs/s/cm2/Angstroms", padded)   *)
(* was accepted.                                                           *)
C3_Witness ==
    /\ call.op = "photons" /\ ret # Pending
    /\ call.parts.pad = <<" ">>
    /\ call.parts.prefix = <<"1","e","-","1"," "," ">>
    /\ call.parts.energy = <<"e","r","g","s">>
    /\ call.parts.area = <<"/","s","/","c","m","2">>
    /\ call.parts.angstrom = <<"/","A","n","g","s","t","r","o","m","s">>
    /\ call.parts.arcsec = <<>>
    /\ call.parts.trailer = <<>>
    /\ ret.ok

(***************************************************************************)
(* C4.  For the units photon and photon/A, photons applies no throughput:  *)
(* the result is the (scaled) flux for photon, and the (scaled) flux times *)
(* the bin width of the input wavelengths, element by element, for         *)
(* photon/A.  Neither depends on the object type, the airmass, the         *)
(* exposure time or any curve of the Throughput: the right-hand side names *)
(* none of them.  Without a scale prefix the flux of photon is unchanged.  *)
(***************************************************************************)
C4_PhotonUnitsBypass ==
    (/\ call.op = "photons" /\ ret # Pending
     /\ Accepted(call.parts) /\ PhotonWord(call.parts)) =>
        /\ ret.ok
        /\ ret.val.ndim = 1
        /\ Len(ret.val.data) = Len(call.flux.data)
        /\ \A j \in 1..Len(call.flux.data) :
              ret.val.data[j] =
                 M(RMul(RMul(call.flux.data[j], PrefixScale(call.parts)),
                        IF PerA(call.parts)
                        THEN gradient(call.wavelength)[j] ELSE One))

(* photon/A without prefix, for a SKY object: flux times bin width, which  *)
(* is neither the flux nor the flux times the throughput.                  *)
C4_Witness ==
    /\ call.op = "photons" /\ ret # Pending
    /\ Accepted(call.parts) /\ PhotonWord(call.parts) /\ PerA(call.parts)
    /\ call.parts.prefix = <<>>
    /\ call.objtype.s = SKY
    /\ ret.ok
    /\ \A j \in 1..Len(call.flux.data) :
          /\ ret.val.data[j].q =
                RMul(call.flux.data[j], gradient(call.wavelength)[j])
          /\ ret.val.data[j].q # call.flux.data[j]

(***************************************************************************)
(* C5.  For each of the four erg units, photons is                         *)
(* apply_throughput(flux) * wavelength / hc * exptime * area, times the    *)
(* bin width exactly when the unit carries /A and times the fiber area     *)
(* (pi * fiberdia^2 / 4) exactly when it carries /arcsec^2; exptime is the *)
(* argument when one is given (0 included) and the Throughput's default    *)
(* exposure time when it is None.                                          *)
(***************************************************************************)
C5_ErgUnitsTable ==
    (/\ call.op = "photons" /\ ret # Pending
     /\ Accepted(call.parts) /\ ErgWord(call.parts)) =>
        LET p == call.parts
            applied == apply_throughput(self, call.wavelength,
                           ArrScale(call.flux, PrefixScale(p)),
                           call.objtype, call.airmass).val.data
            et == IF call.exptime = NoneValue
                  THEN self.exptime ELSE call.exptime.v
            width(j) == IF PerA(p) THEN gradient(call.wavelength)[j] ELSE One
            solid == IF PerArcsec(p)
                     THEN RDiv(RMul(self.fiberdia, self.fiberdia), I(4))
                     ELSE One
        IN  /\ ret.ok
            /\ Len(ret.val.data) = Len(call.flux.data)
            /\ \A j \in 1..Len(call.flux.data) :
                  ret.val.data[j] =
                     Mono(RMul(RMul(RMul(RMul(RMul(applied[j],
                              call.wavelength[j]), et), self.area),
                              width(j)), solid),
                          IF PerArcsec(p) THEN 1 ELSE 0,
                          -1)

(* erg/s/cm^2/A/arcsec^2 with an exposure time of 0 given: every count is  *)
(* 0, not the count of the default exposure time.                          *)
C5_Witness ==
    /\ call.op = "photons" /\ ret # Pending
    /\ Accepted(call.parts) /\ ErgWord(call.parts)
    /\ PerA(call.parts) /\ PerArcsec(call.parts)
    /\ call.exptime = FloatArg(Zero)
    /\ self.exptime # Zero
    /\ ret.ok
    /\ \A j \in 1..Len(call.flux.data) : ret.val.data[j] = Mono(Zero, 1, -1)
    /\ \E j \in 1..Len(call.flux.data) :
          thru(self, call.wavelength, call.objtype.s, call.airmass)[j] # Zero

(***************************************************************************)
(* Conditions on a call of trapz, read off its arguments *)
(***************************************************************************)
NonDecreasing(q) == \A i \in 1..(Len(q) - 1) : RLe(q[i], q[i + 1])
StrictlyIncreasing(q) == \A i \in 1..(Len(q) - 1) : RLt(q[i], q[i + 1])
AcceptedSamples(xp, yp) ==
    NonDecreasing(xp) /\ Len(xp) = Len(yp) /\ Len(xp) >= 1
RepeatedSample(xp, v) ==
    \E i, j \in 1..Len(xp) : i # j /\ xp[i] = v /\ xp[j] = v
WholeRange(edges) == <<edges[1], edges[Len(edges)]>>

(***************************************************************************)
(* C7 as the claim states it: for every input trapz accepts (xp            *)
(* non-decreasing, yp as long) and every ascending edge sequence, the      *)
(* per-bin integrals add up to the one integral over [e_0, e_k], and the   *)
(* integral over [xp[0], xp[-1]] is np.trapz(yp, xp).                      *)
(***************************************************************************)
C7_AsClaimed ==
    (/\ call.op = "trapz" /\ ret # Pending
     /\ AcceptedSamples(call.xp, call.yp)
     /\ Len(call.edges) >= 2 /\ NonDecreasing(call.edges)) =>
        /\ ret.ok
        /\ SeqSum(ret.val) =
              trapz(WholeRange(call.edges), call.xp, call.yp).val[1]
        /\ (call.edges = <<call.xp[1], call.xp[Len(call.xp)]>>)
              => ret.val[1] = np_trapz(call.yp, call.xp)

(***************************************************************************)
(* What does hold of C7 in the code.  The sum of the per-bin integrals     *)
(* equals the integral over [e_0, e_k] when no edge lies on a repeated     *)
(* sample position, and the integral over [xp[0], xp[-1]] equals           *)
(* np.trapz(yp, xp) when the last sample position is not repeated; both    *)
(* hold in particular for every strictly increasing xp.  On a repeated     *)
(* position np.interp yields the last of the tied samples while            *)
(* np.searchsorted puts the edge before the first of them, so the samples  *)
(* of the jump are counted by the bin above the edge only.  (Exact         *)
(* arithmetic: in doubles the two sides agree to rounding.)                *)
(***************************************************************************)
C7_BinsSumToWhole ==
    (/\ call.op = "trapz" /\ ret # Pending
     /\ AcceptedSamples(call.xp, call.yp)
     /\ Len(call.edges) >= 2 /\ NonDecreasing(call.edges)) =>
        /\ ret.ok
        /\ (\A i \in 1..Len(call.edges) :
               ~RepeatedSample(call.xp, call.edges[i]))
              => SeqSum(ret.val) =
                    trapz(WholeRange(call.edges), call.xp, call.yp).val[1]
        /\ (/\ call.edges = <<call.xp[1], call.xp[Len(call.xp)]>>
            /\ ~RepeatedSample(call.xp, call.xp[Len(call.xp)]))
              => ret.val[1] = np_trapz(call.yp, call.xp)

(* Two bins whose inner edge lies on a sample, between samples of          *)
(* different values, over strictly increasing positions: the two integrals *)
(* are not 0 and add up to the whole.                                      *)
C7_Witness ==
    /\ call.op = "trapz" /\ ret # Pending
    /\ StrictlyIncreasing(call.xp) /\ Len(call.xp) = 3
    /\ call.yp[1] # call.yp[2]
    /\ Len(call.edges) = 3
    /\ RLt(call.edges[1], call.edges[2]) /\ RLt(call.edges[2], call.edges[3])
    /\ call.edges[2] = call.xp[2]
    /\ ret.ok
    /\ ret.val[1] # Zero /\ ret.val[2] # Zero
    /\ RAdd(ret.val[1], ret.val[2]) =
          trapz(WholeRange(call.edges), call.xp, call.yp).val[1]

(***************************************************************************)
(* C8.  trapz never raises because of where the edges lie: for accepted    *)
(* samples and every sequence of at least one edge (in any order; below,   *)
(* above or across the samples) it returns len(edges)-1 values, and a bin  *)
(* wholly below the first or wholly above the last sample integrates to    *)
(* that sample's value times the bin's width.                              *)
(***************************************************************************)
C8_EdgesOutsideDomain ==
    (/\ call.op = "trapz" /\ ret # Pending
     /\ AcceptedSamples(call.xp, call.yp)
     /\ Len(call.edges) >= 1) =>
        /\ ret.ok
        /\ Len(ret.val) = Len(call.edges) - 1
        /\ \A i \in 1..(Len(call.edges) - 1) :
              LET lo == call.edges[i]
                  hi == call.edges[i + 1]
                  n == Len(call.xp)
              IN  /\ (RLt(lo, call.xp[1]) /\ RLt(hi, call.xp[1]))
                        => ret.val[i] = RMul(call.yp[1], RSub(hi, lo))
                  /\ (RLt(call.xp[n], lo) /\ RLt(call.xp[n], hi))
                        => ret.val[i] = RMul(call.yp[n], RSub(hi, lo))

(* Three edges: the first bin lies wholly below the samples and got the    *)
(* first sample's value times its width; the second straddles the whole    *)
(* sampled domain.                                                         *)
C8_Witness ==
    /\ call.op = "trapz" /\ ret # Pending
    /\ AcceptedSamples(call.xp, call.yp)
    /\ Len(call.edges) = 3
    /\ RLt(call.edges[1], call.edges[2])
    /\ RLt(call.edges[2], call.xp[1])
    /\ RLt(call.xp[Len(call.xp)], call.edges[3])
    /\ call.yp[1] # call.yp[Len(call.yp)]
    /\ ret.ok
    /\ ret.val[1] = RMul(call.yp[1], RSub(call.edges[2], call.edges[1]))
    /\ ret.val[1] # Zero

(***************************************************************************)
(* C9.  For strictly ascending grids of at least two lines and every query *)
(* (x, y), inside the grid or not, LinearInterp2D.__call__ raises nothing  *)
(* and returns lerp(lerp(c00, c10, dx), lerp(c01, c11, dx), dy) over the   *)
(* cell whose upper line, on each axis, is the number of grid lines below  *)
(* the query clamped into [1, len-1].  So a query at a grid node (x_i,     *)
(* y_j), the first and last included, returns data[i, j], and a query      *)
(* beyond an edge of the grid continues the slope of the boundary cell.    *)
(***************************************************************************)
Lerp(a, b, t) == RAdd(a, RMul(RSub(b, a), t))
LinesBelow(grid, v) == Cardinality({k \in 1..Len(grid) : RLt(grid[k], v)})
UpperLine(grid, v) == clip(LinesBelow(grid, v), 1, Len(grid) - 1)

C9_BilinearClamped ==
    (call.op = "LinearInterp2D.__call__" /\ ret # Pending) =>
        LET X == self.x
            Y == self.y
            m == Len(X)
            ux == UpperLine(X, call.x)
            uy == UpperLine(Y, call.y)
            dx == RDiv(RSub(call.x, X[ux]), RSub(X[ux + 1], X[ux]))
            dy == RDiv(RSub(call.y, Y[uy]), RSub(Y[uy + 1], Y[uy]))
        IN  /\ ret.ok
            /\ ret.val =
                  Lerp(Lerp(self.data[ux][uy], self.data[ux + 1][uy], dx),
                       Lerp(self.data[ux][uy + 1], self.data[ux + 1][uy + 1], dx),
                       dy)
            /\ \A i \in 1..m, j \in 1..Len(Y) :
                  (call.x = X[i] /\ call.y = Y[j]) => ret.val = self.data[i][j]
            /\ \A j \in 1..Len(Y) :
                  (RLt(X[m], call.x) /\ call.y = Y[j]) =>
                      ret.val =
                         RAdd(self.data[m][j],
                              RMul(RSub(call.x, X[m]),
                                   RDiv(RSub(self.data[m][j], self.data[m - 1][j]),
                                        RSub(X[m], X[m - 1]))))
            /\ \A j \in 1..Len(Y) :
                  (RLt(call.x, X[1]) /\ call.y = Y[j]) =>
                      ret.val =
                         RAdd(self.data[1][j],
                              RMul(RSub(call.x, X[1]),
                                   RDiv(RSub(self.data[2][j], self.data[1][j]),
                                        RSub(X[2], X[1]))))

(* A query above both grids of a 3 x 3 table returned a value outside the  *)
(* table's range: the boundary cell's slope was extended.                  *)
C9_Witness ==
    /\ call.op = "LinearInterp2D.__call__" /\ ret # Pending
    /\ Len(self.x) = 3 /\ Len(self.y) = 3
    /\ RLt(self.x[3], call.x) /\ RLt(self.y[3], call.y)
    /\ ret.ok
    /\ RLt(self.data[3][3], ret.val)

(***************************************************************************)
(* C10.  For every image shape, every shift (none, along the rows only,    *)
(* along the columns only, along both) and every kernel radius, a kernel   *)
(* longer than the image included, sincshift and sincshift2d both return   *)
(* an array of the shape of the input.                                     *)
(***************************************************************************)
C10_ShapePreserved ==
    (call.op \in {"sincshift", "sincshift2d"} /\ ret # Pending) =>
        /\ ret.ok
        /\ ret.val.ndim = 2
        /\ Len(ret.val.rows) = Len(call.image.rows)
        /\ \A i \in 1..Len(ret.val.rows) :
              Len(ret.val.rows[i]) = Len(call.image.rows[i])

(* sincshift moved a 2 x 2 image along both axes with a kernel of five     *)
(* weights, more than the image has pixels, and changed it                 *)
C10_Witness ==
    /\ call.op = "sincshift" /\ ret # Pending
    /\ shape(call.image) = <<2, 2>>
    /\ call.sincrad = 2
    /\ call.dx = Half /\ call.dy = RNeg(Half)
    /\ ret.ok
    /\ shape(ret.val) = <<2, 2>>
    /\ ret.val # call.image

(***************************************************************************)
(* C11 as the claim states it: a file with a wavelength or loglam column,  *)
(* the throughput and extinction columns, an area keyword, EXPTIME and     *)
(* FIBERDIA, and no fiberinput column, loads; the fiber-input curve of the *)
(* object is 1 at every native wavelength, so that the composite for a     *)
(* star is hardware x atmosphere.                                          *)
(***************************************************************************)
RequiredPresent(f) ==
    /\ {"wavelength", "loglam"} \cap f.names # {}
    /\ {"throughput", "extinction"} \subseteq f.names
    /\ {"GEOMAREA", "EFFAREA", "AREA"} \cap f.keys # {}
    /\ {"EXPTIME", "FIBERDIA"} \subseteq f.keys

C11_AsClaimed ==
    (/\ call.op = "load_throughput" /\ ret # Pending
     /\ RequiredPresent(call.file)
     /\ "fiberinput" \notin call.file.names) =>
        /\ ret.ok
        /\ \A i \in 1..Len(ret.val.wave) : ret.val.fiberinput[i] = One
        /\ _throughput(ret.val, STAR, One) =
              VMul(ret.val.thru, Tatm(ret.val, One))

(***************************************************************************)
(* What does hold of C11 in the code: such a file loads exactly when it    *)
(* has the fiberinput column, and the curve of the object is then that     *)
(* column; without the column the load raises ValueError.                  *)
(***************************************************************************)
C11_FiberinputRequired ==
    (/\ call.op = "load_throughput" /\ ret # Pending
     /\ RequiredPresent(call.file)) =>
        IF "fiberinput" \in call.file.names
        THEN /\ ret.ok
             /\ ret.val.fiberinput = call.file.columns["fiberinput"]
             /\ ret.val.area =
                   call.file.header[IF "GEOMAREA" \in call.file.keys
                                    THEN "GEOMAREA"
                                    ELSE IF "EFFAREA" \in call.file.keys
                                    THEN "EFFAREA" ELSE "AREA"]
        ELSE ~ret.ok /\ ret.exc = "ValueError"

(* A file without the fiberinput column and with everything else was read  *)
C11_Witness ==
    /\ call.op = "load_throughput" /\ ret # Pending
    /\ RequiredPresent(call.file)
    /\ "fiberinput" \notin call.file.names
    /\ "loglam" \in call.file.names /\ "wavelength" \notin call.file.names
    /\ Len(call.file.columns["loglam"]) = MaxWave
    /\ ~ret.ok

(***************************************************************************)
(* C12 as the claim states it: for an image of more than one row and more  *)
(* than one column and a shift along one axis only, sincshift returns what *)
(* sincshift2d returns, and each row (each column, for a shift along the   *)
(* columns) of the result is that row (column) of the input convolved on   *)
(* its own, zero padded.                                                   *)
(***************************************************************************)
AlongRowsOnly == call.dx # Zero /\ call.dy = Zero
AlongColumnsOnly == call.dx = Zero /\ call.dy # Zero
LineByLine(image, weights) ==
    Arr2([i \in 1..Len(image.rows) |-> convolve(image.rows[i], weights)])

C12_AsClaimed ==
    (/\ call.op = "sincshift" /\ ret # Pending
     /\ shape(call.image)[1] > 1 /\ shape(call.image)[2] > 1
     /\ AlongRowsOnly \/ AlongColumnsOnly) =>
        /\ ret = sincshift2d(call.image, call.dx, call.dy, call.sincrad)
        /\ AlongRowsOnly =>
              ret.val = LineByLine(call.image,
                                   _sincfunc(arange(call.sincrad), RNeg(call.dx)))
        /\ AlongColumnsOnly =>
              ret.val = transpose(LineByLine(transpose(call.image),
                                   _sincfunc(arange(call.sincrad), RNeg(call.dy))))

(***************************************************************************)
(* What does hold of C12 in the code.  sincshift2d, for a shift along one  *)
(* axis, convolves every line on its own.  sincshift convolves the         *)
(* flattened image, so the kernel runs over the end of one line into the   *)
(* next: it agrees with sincshift2d when the image is a single line along  *)
(* the shifted axis, when the kernel has one weight, or when the shift is  *)
(* below its 1e-6 floor (the weights of sincshift2d are then 1 and 0 to    *)
(* the precision of this model).                                           *)
(***************************************************************************)
C12_AgreeOnOneLine ==
    /\ (/\ call.op = "sincshift2d" /\ ret # Pending
        /\ AlongRowsOnly) =>
           ret.val = LineByLine(call.image,
                                _sincfunc(arange(call.sincrad), RNeg(call.dx)))
    /\ (/\ call.op = "sincshift2d" /\ ret # Pending
        /\ AlongColumnsOnly) =>
           ret.val = transpose(LineByLine(transpose(call.image),
                                _sincfunc(arange(call.sincrad), RNeg(call.dy))))
    /\ (/\ call.op = "sincshift" /\ ret # Pending
        /\ \/ AlongRowsOnly /\ shape(call.image)[1] = 1
           \/ AlongColumnsOnly /\ shape(call.image)[2] = 1
           \/ (AlongRowsOnly \/ AlongColumnsOnly) /\ call.sincrad = 0
           \/ /\ AlongRowsOnly \/ AlongColumnsOnly
              /\ RLe(RAbs(call.dx), ShiftFloor) /\ RLe(RAbs(call.dy), ShiftFloor))
          => ret = sincshift2d(call.image, call.dx, call.dy, call.sincrad)

(* sincshift moved a 2 x 2 image along the rows by half a pixel with three *)
(* weights; the result is not the one of sincshift2d                       *)
C12_Witness ==
    /\ call.op = "sincshift" /\ ret # Pending
    /\ shape(call.image) = <<2, 2>>
    /\ call.dx = Half /\ call.dy = Zero /\ call.sincrad = 1
    /\ ret.ok
    /\ ret # sincshift2d(call.image, call.dx, call.dy, call.sincrad)

(***************************************************************************)
(* C13 as the claim states it: for every non-empty array of centers,       *)
(* gausspix returns one value per center, and value i is                   *)
(* gaussint(x[i] + 0.5) - gaussint(x[i] - 0.5), the Gaussian integrated    *)
(* over the pixel of width 1 centered at x[i].                             *)
(***************************************************************************)
PixelIntegral(c, mean, sigma) ==
    RSub(gaussint(<<RAdd(c, Half)>>, mean, sigma)[1],
         gaussint(<<RSub(c, Half)>>, mean, sigma)[1])

C13_AsClaimed ==
    (call.op = "gausspix" /\ ret # Pending /\ Len(call.x) >= 1) =>
        /\ ret.ok
        /\ Len(ret.val) = Len(call.x)
        /\ \A i \in 1..Len(call.x) :
              ret.val[i] = PixelIntegral(call.x[i], call.mean, call.sigma)

(***************************************************************************)
(* What does hold of C13 in the code.  gausspix returns one value per      *)
(* center; the last is the integral over the pixel of the last center, and *)
(* value i before it is the integral from x[i] - 0.5 to x[i+1] - 0.5,      *)
(* which is the pixel of x[i] exactly when x[i+1] = x[i] + 1.              *)
(***************************************************************************)
C13_UnitSpacedOnly ==
    (call.op = "gausspix" /\ ret # Pending) =>
        LET n == Len(call.x)
        IN  /\ ret.ok
            /\ Len(ret.val) = n
            /\ n >= 1 =>
                  ret.val[n] = PixelIntegral(call.x[n], call.mean, call.sigma)
            /\ \A i \in 1..(n - 1) :
                  /\ ret.val[i] =
                        RSub(gaussint(<<RSub(call.x[i + 1], Half)>>,
                                      call.mean, call.sigma)[1],
                             gaussint(<<RSub(call.x[i], Half)>>,
                                      call.mean, call.sigma)[1])
                  /\ call.x[i + 1] = RAdd(call.x[i], One) =>
                        ret.val[i] =
                           PixelIntegral(call.x[i], call.mean, call.sigma)

(* Centers 0 and 2 under the standard Gaussian: the first value is not the *)
(* integral over the pixel of 0                                            *)
C13_Witness ==
    /\ call.op = "gausspix" /\ ret # Pending
    /\ call.x = <<I(0), I(2)>> /\ call.mean = Zero /\ call.sigma = One
    /\ ret.ok
    /\ ret.val[1] # PixelIntegral(I(0), Zero, One)
    /\ ret.val[2] = PixelIntegral(I(2), Zero, One)

(***************************************************************************)
(* C14 as the claim states it: for every coefficient vector of one or more *)
(* coefficients and every evaluation point, the numba version and the      *)
(* fallback of legval_numba return the same value, so whichever ran, the   *)
(* call returned the fallback's value; and the one that ran is the one     *)
(* chosen when the module was imported, whatever the environment is at the *)
(* call.                                                                   *)
(***************************************************************************)
ChosenAtImport ==
    self.legval = select_legval(self.numba_installed, self.disable_jit_at_import)

C14_AsClaimed ==
    /\ ChosenAtImport
    /\ (call.op = "legval_numba" /\ ret # Pending /\ Len(call.c) >= 1) =>
          ret = legval_numba_fallback(call.x, call.c)

(***************************************************************************)
(* What does hold of C14 in the code.  The implementation is chosen at the *)
(* import and a call runs it whatever the environment has become.  With    *)
(* two or more coefficients the two versions return the same value (in     *)
(* exact arithmetic: the numba version multiplies by 1/nd where the        *)
(* fallback divides by nd).  With one coefficient the fallback returns     *)
(* c[0] at every point, and the numba version stray + c[0]*x or an error.  *)
(***************************************************************************)
C14_EqualFromTwoCoefficients ==
    /\ ChosenAtImport
    /\ (call.op = "legval_numba" /\ ret # Pending) =>
          /\ Len(call.c) >= 2 =>
                /\ ret = legval_numba_fallback(call.x, call.c)
                /\ \A stray \in StrayReads :
                      ret = legval_numba_jit(call.x, call.c, stray)
          /\ (Len(call.c) = 1 /\ self.legval = "numpy") =>
                ret = Return([j \in 1..Len(call.x) |-> call.c[1]])
          /\ (Len(call.c) = 1 /\ self.legval = "numba") =>
                \E stray \in StrayReads :
                   ret = IF stray.ok
                         THEN Return([j \in 1..Len(call.x) |->
                                         RAdd(stray.val,
                                              RMul(call.c[1], call.x[j]))])
                         ELSE stray

(* The numba version, still in use after NUMBA_DISABLE_JIT was set, has    *)
(* evaluated the series of the single coefficient 2 and returned another   *)
(* value than the fallback                                                 *)
C14_Witness ==
    /\ call.op = "legval_numba" /\ ret # Pending
    /\ self.legval = "numba" /\ self.disable_jit
    /\ call.c = <<I(2)>>
    /\ ret.ok
    /\ ret # legval_numba_fallback(call.x, call.c)

(***************************************************************************)
(* C6.  For a 2-D flux of R rows and a list of R labels, apply_throughput  *)
(* returns an array of the same shape whose row i is flux row i times      *)
(* __call__(wavelength, label[i], airmass), for every i and every          *)
(* assignment of labels; rows keep their places.                           *)
(***************************************************************************)
C6_PerRowThroughput ==
    (/\ call.op = "apply_throughput" /\ ret # Pending
     /\ call.flux.ndim = 2 /\ ~call.objtype.isstr
     /\ Len(call.flux.rows) = Len(call.objtype.list)) =>
        /\ ret.ok
        /\ ret.val.ndim = 2
        /\ Len(ret.val.rows) = Len(call.flux.rows)
        /\ \A i \in 1..Len(call.flux.rows) :
              ret.val.rows[i] =
                 VMul(call.flux.rows[i],
                      thru(self, call.wavelength, call.objtype.list[i],
                           call.airmass))

(* Three rows labelled sky, SKY, sky (repeated, interleaved, differently   *)
(* cased) were multiplied, and the result is not the input.                *)
C6_Witness ==
    /\ call.op = "apply_throughput" /\ ret # Pending
    /\ call.flux.ndim = 2 /\ ~call.objtype.isstr
    /\ call.objtype.list = <<<<"s","k","y">>, SKY, <<"s","k","y">>>>
    /\ ret.ok
    /\ Len(ret.val.rows) = 3
    /\ ret.val.rows # call.flux.rows

=============================================================================
